---- MODULE Spec2Model ----
(***************************************************************************)
(* GraphCanvas.vue of DoodleBUGS: the component that keeps a Cytoscape     *)
(* rendering graph synchronized with the declarative element list of its   *)
(* props (syncGraphWithProps), its zoom controls, its listeners (taps,     *)
(* compound drops, palette drops, cxt-remove) and its grid watchers.       *)
(*                                                                         *)
(* The rendering graph `cy` is a function from the ids of the rendered     *)
(* elements to their rendered state.  The Cytoscape operations the         *)
(* component calls (remove, add, data, position, move, batch) are the      *)
(* operators Cy..., modelled at their call sites with the behaviour        *)
(* Cytoscape documents: removing a node removes its connected edges and    *)
(* its children, an edge is only created between existing elements, a      *)
(* node created with a parent that does not exist gets no parent, and the  *)
(* id, source, target and parent of an element cannot be changed by        *)
(* data().  The position of a compound parent is modelled as a stored      *)
(* value like that of any other node.  The class cy-selected of an element *)
(* is its field selected.                                                  *)
(*                                                                         *)
(* Zoom levels are fixed-point numbers, ZoomOne units per 1.0, and screen  *)
(* coordinates (the pointer, the container's origin, the pan) are counted  *)
(* in units of 1/ZoomOne pixel, so that a model position times a zoom is a *)
(* whole number of screen units.                                           *)
(***************************************************************************)
EXTENDS Integers, Sequences, FiniteSets, TLC

\* ------------------------------------------------------------------ bounds

\* Longest element list of the props.
MaxLen == 3

\* Longest validation-error array of one map entry.
MaxErrors == 1

\* ------------------------------------------------------------ element data

\* JavaScript's undefined, for an optional field that is absent.
Undefined == "undefined"

Pt(x, y) == [x |-> x, y |-> y]

\* A GraphNode and a GraphEdge of the props, as one record shape.
NodeEl(id, nt, pos, par) ==
    [type |-> "node", id |-> id, nodeType |-> nt, position |-> pos,
     parent |-> par, source |-> Undefined, target |-> Undefined]

EdgeEl(id, s, t) ==
    [type |-> "edge", id |-> id, nodeType |-> Undefined, position |-> Pt(0, 0),
     parent |-> Undefined, source |-> s, target |-> t]

NodeIds == {"n1"}
PlateIds == {"p1"}
EdgeIds == {"e1"}
Positions == {Pt(0, 0), Pt(0, 20), Pt(10, 20)}
NodeTypes == {"observed", "constant"}

PlateEls == {NodeEl(id, "plate", Pt(0, 0), Undefined) : id \in PlateIds}

\* The ends an edge may declare: its source and its target.
EdgeEnds == {<<"n1", "n1">>, <<"n1", "p1">>, <<"p1", "n1">>}

EdgeEls == {EdgeEl(id, st[1], st[2]) : id \in EdgeIds, st \in EdgeEnds}

\* The edges of the layout runs start at a plain node.
LayoutEdgeEls == {e \in EdgeEls : e.source \in NodeIds}

\* An element whose id is empty.
MalformedEls == {NodeEl("", "stochastic", Pt(0, 0), Undefined)}

\* The elements of the layout runs: the nodes vary in position and parent.
LayoutElements ==
    {NodeEl(id, "stochastic", pos, par) :
        id \in NodeIds, pos \in Positions, par \in PlateIds \cup {Undefined}}
    \cup PlateEls \cup LayoutEdgeEls \cup MalformedEls

\* The elements of the runs with a raising engine and of the event runs: the nodes and the plates.
RaiseElements == {e \in LayoutElements : e.id # "" /\ e.type = "node"}

\* The elements of the data runs: the nodes vary in nodeType.
DataElements ==
    {NodeEl(id, nt, Pt(0, 0), Undefined) : id \in NodeIds, nt \in NodeTypes}
    \cup PlateEls \cup EdgeEls \cup MalformedEls

IdsOf(L) == {L[i].id : i \in DOMAIN L}

\* The lists of at most n elements of U.
RECURSIVE ListsUpTo(_, _)
ListsUpTo(U, n) ==
    IF n = 0 THEN {<< >>}
    ELSE LET shorter == ListsUpTo(U, n - 1)
         IN shorter \cup
            {Append(l, e) : l \in {s \in shorter : Len(s) = n - 1}, e \in U}

UniqueIds(L) == \A i, j \in DOMAIN L : L[i].id = L[j].id => i = j

\* The element lists of the props: at most MaxLen elements, ids unique.
AllLists(U) == {L \in ListsUpTo(U, MaxLen) : UniqueIds(L)}

\* The lists of the data model: ids not empty, every edge between nodes of
\* the list, every parent a plate of the list.
IsNodeOf(L, id) == \E i \in DOMAIN L : L[i].id = id /\ L[i].type = "node"

IsPlateOf(L, id) ==
    \E i \in DOMAIN L : L[i].id = id /\ L[i].nodeType = "plate"

WellFormed(L) ==
    \A i \in DOMAIN L :
        /\ L[i].id # ""
        /\ L[i].type = "edge" =>
              IsNodeOf(L, L[i].source) /\ IsNodeOf(L, L[i].target)
        /\ L[i].type = "node" =>
              L[i].parent = Undefined \/ IsPlateOf(L, L[i].parent)

\* The validation maps: a key for some ids, each with the length of its array.
ErrorKeyIds == {"n1"}

AllErrorMaps ==
    UNION {[K -> 0..MaxErrors] : K \in SUBSET ErrorKeyIds}

NoErrors == [i \in {} |-> 0]

\* ------------------------------------------------ formatElementsForCytoscape

\* elements.find(n => n.id === id && n.type === 'node'): the first match.
FindNode(elements, id) ==
    LET hits == {i \in DOMAIN elements :
                    elements[i].id = id /\ elements[i].type = "node"}
    IN IF hits = {} THEN Undefined
       ELSE elements[CHOOSE i \in hits : \A j \in hits : i <= j].nodeType

\* RelType without the observed case.
RelTypeStochasticOnly(nt) ==
    IF nt = "stochastic" THEN "stochastic" ELSE "deterministic"

\* The relationshipType of an edge whose target node has nodeType nt
\* (Undefined when there is no such node).
RelType(nt) ==
    IF nt = "stochastic" \/ nt = "observed" THEN "stochastic"
    ELSE "deterministic"

\* HasError as a test of the entry's length.
HasNonEmptyError(errors, id) == id \in DOMAIN errors /\ errors[id] > 0

\* errors.has(id)
HasError(errors, id) == id \in DOMAIN errors

\* One ElementDefinition: the group, the data payload, the position.
FormatElement(elements, errors, el) ==
    IF el.type = "node"
    THEN [group |-> "nodes", id |-> el.id, nodeType |-> el.nodeType,
          parent |-> el.parent, source |-> Undefined, target |-> Undefined,
          hasError |-> HasError(errors, el.id),
          relationshipType |-> Undefined, position |-> el.position]
    ELSE [group |-> "edges", id |-> el.id, nodeType |-> Undefined,
          parent |-> Undefined, source |-> el.source, target |-> el.target,
          hasError |-> FALSE,
          relationshipType |-> RelType(FindNode(elements, el.target)),
          position |-> el.position]

formatElementsForCytoscape(elements, errors) ==
    [i \in DOMAIN elements |-> FormatElement(elements, errors, elements[i])]

\* ------------------------------------------------------ the rendering graph

EmptyGraph == [i \in {} |-> Undefined]

Restrict(g, D) == [i \in D |-> g[i]]

Children(g, id) ==
    {c \in DOMAIN g : g[c].group = "nodes" /\ g[c].parent = id}

ConnectedEdges(g, id) ==
    {e \in DOMAIN g : g[e].group = "edges"
                      /\ (g[e].source = id \/ g[e].target = id)}

\* What the removal of the elements S takes with it: the edges connected to
\* a removed node and the children of a removed parent.
RECURSIVE RemovalClosure(_, _)
RemovalClosure(g, S) ==
    LET more == S \cup UNION {Children(g, i) \cup ConnectedEdges(g, i) : i \in S}
    IN IF more = S THEN S ELSE RemovalClosure(g, more)

\* cyEl.remove()
CyRemove(g, id) ==
    IF id \notin DOMAIN g THEN g
    ELSE Restrict(g, DOMAIN g \ RemovalClosure(g, {id}))

\* The rendered state of a new element: it has no class.
Rendered(fe, par) ==
    [group |-> fe.group, nodeType |-> fe.nodeType, hasError |-> fe.hasError,
     position |-> fe.position, parent |-> par, source |-> fe.source,
     target |-> fe.target, relationshipType |-> fe.relationshipType,
     selected |-> FALSE]

\* cy.add(formattedEl): an edge needs both its ends in the graph, and a
\* parent that is not in the graph is dropped.
CyAdd(g, fe) ==
    IF fe.id \in DOMAIN g THEN g
    ELSE IF fe.group = "nodes"
    THEN LET par == IF fe.parent \in DOMAIN g THEN fe.parent ELSE Undefined
         IN g @@ (fe.id :> Rendered(fe, par))
    ELSE IF fe.source \in DOMAIN g /\ fe.target \in DOMAIN g
    THEN g @@ (fe.id :> Rendered(fe, Undefined))
    ELSE g

\* existingCyEl.data(formattedEl.data): every field but id, source, target
\* and parent.
CyData(g, fe) ==
    [g EXCEPT ![fe.id].nodeType = fe.nodeType,
              ![fe.id].hasError = fe.hasError,
              ![fe.id].relationshipType = fe.relationshipType]

\* existingCyEl.position(newNode.position)
CyPosition(g, id, pos) == [g EXCEPT ![id].position = pos]

\* existingCyEl.move({ parent }): to no container, or to one in the graph.
CyMove(g, id, par) ==
    IF par = Undefined \/ par \in DOMAIN g
    THEN [g EXCEPT ![id].parent = par]
    ELSE g

\* ------------------------------------------------------ syncGraphWithProps

\* One call of the rendering engine, as the pass logs it; changed tells
\* whether the call changed the graph.
Op(kind, id, pos, par) ==
    [op |-> kind, id |-> id, position |-> pos, parent |-> par,
     changed |-> FALSE]

\* The pass so far: the graph, the engine calls made, the graphs the
\* renderer was notified of, the number of engine calls, and whether one of
\* them raised.
Start(g) ==
    [g |-> g, ops |-> {}, renders |-> << >>, n |-> 0, thrown |-> FALSE]

\* Raise as a loop that catches the exception and goes on.
RaiseSwallowed(st) == st

\* An exception of an engine call leaves the callbacks of the pass.
Raise(st) == [st EXCEPT !.thrown = TRUE]

\* The engine notifies its renderer of every change unless a batch is open.
Notify(st, batching) ==
    IF batching THEN st ELSE [st EXCEPT !.renders = Append(@, st.g)]

\* One engine call that turns the graph into g2; call number failAt raises.
Engine(st, op, g2, batching, failAt) ==
    IF st.thrown THEN st
    ELSE IF st.n + 1 = failAt THEN Raise([st EXCEPT !.n = @ + 1])
    ELSE Notify([st EXCEPT !.g = g2, !.n = @ + 1,
                           !.ops = @ \cup {[op EXCEPT !.changed = (g2 # st.g)]}],
                batching)

\* cy.elements() in the order the loop visits them.
RECURSIVE SetToSeq(_)
SetToSeq(S) ==
    IF S = {} THEN << >>
    ELSE LET x == CHOOSE y \in S : TRUE IN <<x>> \o SetToSeq(S \ {x})

\* cy.elements().forEach: remove what the new list does not name.
RECURSIVE RemoveStale(_, _, _, _)
RemoveStale(st, stale, batching, failAt) ==
    IF stale = << >> \/ st.thrown THEN st
    ELSE RemoveStale(
            Engine(st, Op("remove", Head(stale), Pt(0, 0), Undefined),
                   CyRemove(st.g, Head(stale)), batching, failAt),
            Tail(stale), batching, failAt)

\* PositionDiffers as a test of x alone.
PositionDiffersInX(newPos, currentPos) == newPos.x # currentPos.x

\* The position test of the pass.
PositionDiffers(newPos, currentPos) ==
    newPos.x # currentPos.x \/ newPos.y # currentPos.y

\* ParentDiffers as a test that a parent is declared.
ParentDeclared(newParent, currentParentId) == newParent # Undefined

\* The parent test of the pass.
ParentDiffers(newParent, currentParentId) == newParent # currentParentId

\* An element that is in the graph: its data, then its position and parent.
SyncExisting(st, fe, batching, failAt) ==
    LET s1 == Engine(st, Op("data", fe.id, Pt(0, 0), Undefined),
                     CyData(st.g, fe), batching, failAt)
        s2 == IF ~s1.thrown /\ fe.group = "nodes"
                 /\ PositionDiffers(fe.position, s1.g[fe.id].position)
              THEN Engine(s1, Op("position", fe.id, fe.position, Undefined),
                          CyPosition(s1.g, fe.id, fe.position), batching, failAt)
              ELSE s1
        s3 == IF ~s2.thrown /\ fe.group = "nodes"
                 /\ ParentDiffers(fe.parent, s2.g[fe.id].parent)
              THEN Engine(s2, Op("move", fe.id, Pt(0, 0), fe.parent),
                          CyMove(s2.g, fe.id, fe.parent), batching, failAt)
              ELSE s2
    IN s3

\* SkipsElement without the test of the id.
SkipsNothing(fe) == FALSE

\* if (!formattedEl.data.id) return
SkipsElement(fe) == fe.id = ""

\* One turn of formattedElements.forEach.
SyncElement(st, fe, batching, failAt) ==
    IF st.thrown \/ SkipsElement(fe) THEN st
    ELSE IF fe.id \notin DOMAIN st.g
    THEN Engine(st, Op("add", fe.id, fe.position, fe.parent),
                CyAdd(st.g, fe), batching, failAt)
    ELSE SyncExisting(st, fe, batching, failAt)

RECURSIVE SyncElements(_, _, _, _, _)
SyncElements(st, formatted, i, batching, failAt) ==
    IF i > Len(formatted) THEN st
    ELSE SyncElements(SyncElement(st, formatted[i], batching, failAt),
                      formatted, i + 1, batching, failAt)

\* The callback of cy.batch.
PassBody(g, elementsToSync, errorsToSync, batching, failAt) ==
    LET stale == SetToSeq({id \in DOMAIN g : id \notin IdsOf(elementsToSync)})
        removed == RemoveStale(Start(g), stale, batching, failAt)
    IN SyncElements(removed,
                    formatElementsForCytoscape(elementsToSync, errorsToSync),
                    1, batching, failAt)

\* CyBatch with the callback run outside any batch.
CyNoBatch(g, elementsToSync, errorsToSync, failAt) ==
    PassBody(g, elementsToSync, errorsToSync, FALSE, failAt)

\* cy.batch(callback): the renderer is notified once, when the batch ends;
\* a callback that raises leaves before the batch ends.
CyBatch(g, elementsToSync, errorsToSync, failAt) ==
    LET st == PassBody(g, elementsToSync, errorsToSync, TRUE, failAt)
    IN IF st.thrown THEN st ELSE Notify(st, FALSE)

syncGraphWithProps(g, elementsToSync, errorsToSync, failAt) ==
    CyBatch(g, elementsToSync, errorsToSync, failAt)

\* ------------------------------------------------------------------- zoom

\* The number 1 of the zoom state, in fixed-point units.
ZoomOne == 1000

minZoom == ZoomOne \div 10
maxZoom == 2 * ZoomOne

Min(a, b) == IF a <= b THEN a ELSE b
Max(a, b) == IF a >= b THEN a ELSE b

\* cy.zoom() * 1.2 and cy.zoom() / 1.2
TimesStep(z) == (z * 12) \div 10
OverStep(z) == (z * 10) \div 12

\* ZoomInLevel without the clamp.
ZoomInUnclamped(z) == TimesStep(z)

\* The new level of zoomIn and of zoomOut.
ZoomInLevel(z) == Min(TimesStep(z), maxZoom)
ZoomOutLevel(z) == Max(OverStep(z), minZoom)

\* The zoom levels a gesture or cy.fit() can leave the engine at.
EngineZooms == {50, 700, 1300, 3000}

\* The values of the slider: min 0.1, max 2, step 0.1.
SliderValues == {k * (ZoomOne \div 10) : k \in 1..20}

\* The pan offsets a gesture or a zoom about a point can leave the engine at.
Pans == {Pt(0, 0), Pt(1500, -500)}

\* -------------------------------------------- the listeners of the engine

\* The target of a tap on the background: the engine itself.
Core == "cy"

\* JavaScript's null.
Null == "null"

\* TapSelect without the removal of the class from the other elements.
TapSelectKeepsOthers(g, target) ==
    IF target \in DOMAIN g
    THEN [g EXCEPT ![target].selected = TRUE]
    ELSE [id \in DOMAIN g |-> [g[id] EXCEPT !.selected = FALSE]]

\* The two tap listeners that select: on a node or an edge cy-selected is
\* removed from every element and added to the target; on the background it
\* is removed from every element.
TapSelect(g, target) ==
    [id \in DOMAIN g |-> [g[id] EXCEPT !.selected = (id = target)]]

\* The first tap listener.
TapEvents(target) == <<[name |-> "canvas-tap", target |-> target]>>

\* CompoundDropEvents with the parent the node left.
CompoundDropEventsOldParent(g, data) ==
    <<[name |-> "node-moved", nodeId |-> data.node,
       position |-> g[data.node].position,
       parentId |-> IF data.oldParent # Null THEN data.oldParent
                    ELSE Undefined]>>

\* CompoundDropEvents with a plate-emptied event for a plate left empty.
CompoundDropEventsPlateEmptied(g, data) ==
    <<[name |-> "node-moved", nodeId |-> data.node,
       position |-> g[data.node].position,
       parentId |-> IF data.newParent # Null THEN data.newParent
                    ELSE Undefined]>>
    \o (IF data.oldParent # Null /\ Children(g, data.oldParent) = {}
        THEN <<[name |-> "plate-emptied", plateId |-> data.oldParent]>>
        ELSE << >>)

\* The compound-drop listener.
CompoundDropEvents(g, data) ==
    <<[name |-> "node-moved", nodeId |-> data.node,
       position |-> g[data.node].position,
       parentId |-> IF data.newParent # Null THEN data.newParent
                    ELSE Undefined]>>

\* The cxt-remove listener of the container.
CxtRemoveEvents(elementId) ==
    IF elementId # ""
    THEN <<[name |-> "element-remove", elementId |-> elementId]>>
    ELSE << >>

\* ------------------------------------------------------- the drop listener

\* validNodeTypes without the plate.
validNodeTypesNoPlate == {"stochastic", "deterministic", "constant", "observed"}

validNodeTypes ==
    {"stochastic", "deterministic", "constant", "observed", "plate"}

\* What getData('text/plain') can return: a node kind, another palette
\* item, or the empty string when the drag carries no such data.
PayloadKinds ==
    {"stochastic", "deterministic", "constant", "observed", "plate", "table",
     ""}

Abs(n) == IF n < 0 THEN -n ELSE n

RECURSIVE GCD(_, _)
GCD(a, b) == IF b = 0 THEN a ELSE GCD(b, a % b)

\* The quotient n / d of two whole numbers, d > 0, as a fraction in lowest
\* terms.
Quot(n, d) ==
    LET g == GCD(Abs(n), d)
    IN [num |-> n \div g, den |-> d \div g]

\* DropPosition without the pan.
DropPositionNoPan(client, origin, pan, zoom) ==
    LET renderedPos == Pt(client.x - origin.x, client.y - origin.y)
    IN [x |-> Quot(renderedPos.x, zoom), y |-> Quot(renderedPos.y, zoom)]

\* modelPos of the drop listener: the pointer relative to the container,
\* less the pan, over the zoom.
DropPosition(client, origin, pan, zoom) ==
    LET renderedPos == Pt(client.x - origin.x, client.y - origin.y)
    IN [x |-> Quot(renderedPos.x - pan.x, zoom),
        y |-> Quot(renderedPos.y - pan.y, zoom)]

\* The events of one drop: ev.transfer tells whether the event has a
\* dataTransfer.
DropEvents(ev, pan, zoom) ==
    IF ev.transfer /\ ev.kind \in validNodeTypes
    THEN <<[name |-> "node-dropped", nodeType |-> ev.kind,
            position |-> DropPosition(ev.client, ev.origin, pan, zoom)]>>
    ELSE << >>

\* The model points a pointer is held over, and the origins of the container.
ModelPoints == {Pt(0, 0), Pt(10, 20), Pt(-3, 7)}
Origins == {Pt(0, 0), Pt(8000, 64000)}

\* The client position of a pointer over the rendered model point m.
PointerOver(m, origin, pan, zoom) ==
    Pt(origin.x + m.x * zoom + pan.x, origin.y + m.y * zoom + pan.y)

\* ---------------------------------------------------------- grid snapping

\* The grid snapping controller: whether it snaps, and its pitch.
GridSizes == {0, 10, 20}

setGridSize(ctl, n) == [ctl EXCEPT !.pitch = n]

enableGridSnapping(ctl) == [ctl EXCEPT !.enabled = TRUE]

disableGridSnapping(ctl) == [ctl EXCEPT !.enabled = FALSE]

\* onMounted: the pitch, then snapping on or off as the prop says.
MountGrid(ctl, enabledProp, sizeProp) ==
    LET sized == setGridSize(ctl, sizeProp)
    IN IF enabledProp THEN enableGridSnapping(sized)
       ELSE disableGridSnapping(sized)

\* The watcher of props.isGridEnabled.
OnGridEnabled(ctl, newValue) ==
    IF newValue THEN enableGridSnapping(ctl) ELSE disableGridSnapping(ctl)

\* OnGridSize with snapping enabled whatever the prop says.
OnGridSizeEnables(ctl, newValue, enabledProp) ==
    enableGridSnapping(setGridSize(ctl, newValue))

\* The watcher of props.gridSize.
OnGridSize(ctl, newValue, enabledProp) ==
    LET sized == setGridSize(ctl, newValue)
    IN IF enabledProp THEN enableGridSnapping(sized) ELSE sized

\* ------------------------------------------------------------------ state

VARIABLES
    phase,             \* "setup", "created" (cy is null) or "mounted"
    handler,           \* the handler that ran last
    elements,          \* props.elements
    validationErrors,  \* props.validationErrors: id -> length of its array
    cy,                \* the rendering graph
    ops,               \* the engine calls of the last pass
    renders,           \* the graphs the renderer was notified of in that pass
    raisedAt,          \* the engine call of the last pass that raised (0: none)
    touched,           \* an interaction changed the graph since the last pass
    repeat,            \* the last pass had the list and map of the pass
                       \* before it, and no interaction came between them
    unmoved,           \* the nodes the last pass had no cause to move: see
                       \* Unmoved
    cyZoom,            \* cy.zoom()
    currentZoom,       \* currentZoom.value
    zoomListener,      \* a 'zoom' listener is registered on cy
    zoomBefore,        \* cy.zoom() when the last zoom control was used
    cyPan,             \* cy.pan(), in screen units
    emitted,           \* the events the last handler emitted, in order
    received,          \* the drop event or the compound-drop notification
                       \* that the last handler received
    isGridEnabled,     \* props.isGridEnabled
    gridSize,          \* props.gridSize
    snapping,          \* the grid snapping controller is enabled
    pitch              \* the grid pitch the controller is configured with

vars ==
    <<phase, handler, elements, validationErrors, cy, ops, renders, raisedAt,
      touched, repeat, unmoved, cyZoom, currentZoom, zoomListener,
      zoomBefore, cyPan, emitted, received, isGridEnabled, gridSize,
      snapping, pitch>>

propVars == <<elements, validationErrors>>
graphVars == <<cy, ops, renders, raisedAt, touched, repeat, unmoved>>
zoomVars == <<cyZoom, currentZoom, zoomListener, zoomBefore>>
gridProps == <<isGridEnabled, gridSize>>
gridVars == <<isGridEnabled, gridSize, snapping, pitch>>

\* The last handler was not the drop or the compound-drop listener.
NoInput ==
    [transfer |-> FALSE, kind |-> "", client |-> Pt(0, 0), origin |-> Pt(0, 0)]

\* The grid props of the runs that are not about the grid.
GridOff == {<<FALSE, 0>>}

InitAll(lists, maps, grids) ==
    /\ phase = "setup"
    /\ handler = "none"
    /\ elements \in lists
    /\ validationErrors \in maps
    /\ cy = EmptyGraph
    /\ ops = {}
    /\ renders = << >>
    /\ raisedAt = 0
    /\ touched = FALSE
    /\ repeat = FALSE
    /\ unmoved = {}
    /\ cyZoom = ZoomOne
    /\ currentZoom = ZoomOne
    /\ zoomListener = FALSE
    /\ zoomBefore = ZoomOne
    /\ cyPan = Pt(0, 0)
    /\ emitted = << >>
    /\ received = NoInput
    /\ \E gp \in grids : isGridEnabled = gp[1] /\ gridSize = gp[2]
    /\ snapping = FALSE
    /\ pitch = 0

InitWith(lists, maps) == InitAll(lists, maps, GridOff)

\* The grid snapping controller, and a handler's change of it.
Ctl == [enabled |-> snapping, pitch |-> pitch]

SetCtl(c) ==
    /\ snapping' = c.enabled
    /\ pitch' = c.pitch

\* A handler that emits no event.
Silent ==
    /\ emitted' = << >>
    /\ received' = NoInput

\* The nodes that two consecutive lists of the data model place at the same
\* position under the same parent.
Unmoved(L1, L2) ==
    IF ~(WellFormed(L1) /\ WellFormed(L2)) THEN {}
    ELSE {id \in IdsOf(L1) \cap IdsOf(L2) :
            \E i \in DOMAIN L1, j \in DOMAIN L2 :
                /\ L1[i].id = id /\ L2[j].id = id
                /\ L1[i].type = "node" /\ L2[j].type = "node"
                /\ L1[i].position = L2[j].position
                /\ L1[i].parent = L2[j].parent}

\* A pass of syncGraphWithProps over (L, E) on graph g; engine call number
\* failAt raises (0: none does).
Pass(g, L, E, failAt) ==
    LET st == syncGraphWithProps(g, L, E, failAt)
    IN /\ cy' = st.g
       /\ ops' = st.ops
       /\ renders' = st.renders
       /\ raisedAt' = failAt
       /\ touched' = FALSE

\* The script's setup: the watcher of cy runs at once, while cy is null, and
\* cy is no reactive source, so it never runs again.
WatchCy(newCy) ==
    /\ zoomListener' = newCy
    /\ currentZoom' = IF newCy THEN cyZoom ELSE currentZoom

Setup ==
    /\ phase = "setup"
    /\ phase' = "created"
    /\ handler' = "setup"
    /\ WatchCy(FALSE)
    /\ Silent
    /\ UNCHANGED <<propVars, graphVars, cyZoom, zoomBefore, cyPan, gridVars>>

\* onMounted: initCytoscape with no elements, the first pass, then the grid.
Mount ==
    /\ phase = "created"
    /\ phase' = "mounted"
    /\ handler' = "onMounted"
    /\ Pass(EmptyGraph, elements, validationErrors, 0)
    /\ repeat' = FALSE
    /\ unmoved' = {}
    /\ SetCtl(MountGrid(Ctl, isGridEnabled, gridSize))
    /\ Silent
    /\ UNCHANGED <<propVars, zoomVars, cyPan, gridProps>>

\* The watcher of the props: a changed list or map starts a pass.
SetProps(L, E, failAt) ==
    /\ phase = "mounted"
    /\ handler' = "watchProps"
    /\ elements' = L
    /\ validationErrors' = E
    /\ Pass(cy, L, E, failAt)
    /\ repeat' = (~touched /\ L = elements /\ E = validationErrors)
    /\ unmoved' = IF touched THEN {} ELSE Unmoved(elements, L)
    /\ Silent
    /\ UNCHANGED <<phase, zoomVars, cyPan, gridVars>>

InsertAt(L, i, e) == SubSeq(L, 1, i - 1) \o <<e>> \o SubSeq(L, i, Len(L))
RemoveAt(L, i) == SubSeq(L, 1, i - 1) \o SubSeq(L, i + 1, Len(L))

\* The changes of the props: one element added, removed or replaced.
Added(U) ==
    {InsertAt(elements, i, e) :
        i \in 1..(Len(elements) + 1),
        e \in {x \in U : x.id \notin IdsOf(elements)}}

Removed == {RemoveAt(elements, i) : i \in DOMAIN elements}

Updated(U) ==
    UNION {{[elements EXCEPT ![i] = e] : e \in {x \in U : x.id = elements[i].id}} :
              i \in DOMAIN elements}

AddElement(U) ==
    \E L \in Added(U) :
        /\ Len(elements) < MaxLen
        /\ SetProps(L, validationErrors, 0)

RemoveElement ==
    \E L \in Removed : SetProps(L, validationErrors, 0)

UpdateElement(U) ==
    \E L \in Updated(U) :
        /\ L # elements
        /\ SetProps(L, validationErrors, 0)

SetValidationErrors ==
    \E E \in AllErrorMaps :
        /\ E # validationErrors
        /\ SetProps(elements, E, 0)

\* A change of the props that leaves every modelled field as it is (display
\* metadata, a new array of the same elements).
TouchElements ==
    SetProps(elements, validationErrors, 0)

\* The user drags a rendered node to another position.
Drag ==
    \E id \in DOMAIN cy \cap NodeIds, pos \in Positions :
        /\ phase = "mounted"
        /\ handler' = "drag"
        /\ cy[id].position # pos
        /\ cy' = CyPosition(cy, id, pos)
        /\ touched' = TRUE
        /\ Silent
        /\ UNCHANGED <<phase, propVars, ops, renders, raisedAt, repeat,
                       unmoved, zoomVars, cyPan, gridVars>>

\* The layout runs: lists of LayoutElements, no validation errors.
Init == InitWith(AllLists(LayoutElements), {NoErrors})

Next ==
    \/ Setup
    \/ Mount
    \/ AddElement(LayoutElements)
    \/ RemoveElement
    \/ UpdateElement(LayoutElements)
    \/ TouchElements
    \/ Drag

Spec == Init /\ [][Next]_vars

\* The data runs: lists of DataElements under every validation map.
InitData == InitWith(AllLists(DataElements), AllErrorMaps)

NextData ==
    \/ Setup
    \/ Mount
    \/ AddElement(DataElements)
    \/ RemoveElement
    \/ UpdateElement(DataElements)
    \/ SetValidationErrors
    \/ TouchElements

SpecData == InitData /\ [][NextData]_vars

\* ------------------------------------------------------- the zoom controls

\* A zoom of the engine: the 'zoom' listener, if there is one, mirrors it.
EngineZoom(z) ==
    /\ cyZoom' = z
    /\ currentZoom' = IF zoomListener THEN z ELSE currentZoom

\* A zoom control: the engine is zoomed about a point, which moves its pan
\* too when the zoom changes, then currentZoom is assigned.
Control(name, level, reported) ==
    /\ phase = "mounted"
    /\ handler' = name
    /\ zoomBefore' = cyZoom
    /\ cyZoom' = level
    /\ cyPan' \in (IF level = cyZoom THEN {cyPan} ELSE Pans)
    /\ currentZoom' = reported
    /\ Silent
    /\ UNCHANGED <<phase, propVars, graphVars, zoomListener, gridVars>>

zoomIn == Control("zoomIn", ZoomInLevel(cyZoom), ZoomInLevel(cyZoom))

zoomOut == Control("zoomOut", ZoomOutLevel(cyZoom), ZoomOutLevel(cyZoom))

\* The zoom levels cy.fit() can leave: that of the content, if there is any.
FitZooms == IF DOMAIN cy = {} THEN {cyZoom} ELSE EngineZooms

\* cy.fit() leaves the zoom the content asks for; 1 is reported.
resetView == \E z \in FitZooms : Control("resetView", z, ZoomOne)

setZoomLevel == \E z \in SliderValues : Control("setZoomLevel", z, z)

\* A gesture on the canvas (the mouse wheel, a pinch, a drag of the
\* background): it zooms and pans.
Gesture ==
    \E z \in EngineZooms, p \in Pans :
        /\ phase = "mounted"
        /\ handler' = "gesture"
        /\ EngineZoom(z)
        /\ cyPan' = p
        /\ Silent
        /\ UNCHANGED <<phase, propVars, graphVars, zoomListener, zoomBefore,
                       gridVars>>

\* The zoom runs: a canvas of at most one element and its zoom controls.
ZoomLists == {<< >>, <<NodeEl("n1", "stochastic", Pt(0, 0), Undefined)>>}

InitZoom == InitWith(ZoomLists, {NoErrors})

NextZoom ==
    \/ Setup
    \/ Mount
    \/ zoomIn
    \/ zoomOut
    \/ resetView
    \/ setZoomLevel
    \/ Gesture

SpecZoom == InitZoom /\ [][NextZoom]_vars

\* ---------------------------------------------------- drops on the canvas

\* The drop events the container can deliver: with or without a
\* dataTransfer, the pointer over a model point or just off the origin.
DropInputs ==
    {[transfer |-> k # "" \/ t, kind |-> k, client |-> c, origin |-> o] :
        t \in BOOLEAN, k \in PayloadKinds, o \in Origins,
        c \in {PointerOver(m, oo, cyPan, cyZoom) :
                  m \in ModelPoints, oo \in Origins}
               \cup {Pt(1, 1)}}

\* The drop listener of the container.
DropOf(inputs) ==
    \E ev \in inputs :
        /\ phase = "mounted"
        /\ handler' = "drop"
        /\ received' = ev
        /\ emitted' = DropEvents(ev, cyPan, cyZoom)
        /\ UNCHANGED <<phase, propVars, graphVars, zoomVars, cyPan, gridVars>>

Drop == DropOf(DropInputs)

InitDrop == InitWith(ZoomLists, {NoErrors})

NextDrop ==
    \/ Setup
    \/ Mount
    \/ Gesture
    \/ Drop

SpecDrop == InitDrop /\ [][NextDrop]_vars

\* ------------------------------------------------------ taps and selection

\* A tap on a rendered element or on the background.
Tap ==
    \E target \in DOMAIN cy \cup {Core} :
        /\ phase = "mounted"
        /\ handler' = "tap"
        /\ emitted' = TapEvents(target)
        /\ cy' = TapSelect(cy, target)
        /\ received' = NoInput
        /\ UNCHANGED <<phase, propVars, ops, renders, raisedAt, touched,
                       repeat, unmoved, zoomVars, cyPan, gridVars>>

\* The list without plate p: its children are released and its edges go
\* with it.
RECURSIVE WithoutPlate(_, _)
WithoutPlate(L, p) ==
    IF L = << >> THEN << >>
    ELSE LET e == Head(L)
             rest == WithoutPlate(Tail(L), p)
         IN IF e.id = p \/ (e.type = "edge" /\ p \in {e.source, e.target})
            THEN rest
            ELSE IF e.parent = p
            THEN <<[e EXCEPT !.parent = Undefined]>> \o rest
            ELSE <<e>> \o rest

\* The parent deletes a plate and keeps what was in it, in one change of
\* the props.
DeletePlate ==
    \E i \in DOMAIN elements :
        /\ elements[i].nodeType = "plate"
        /\ SetProps(WithoutPlate(elements, elements[i].id),
                    validationErrors, 0)

\* The elements of the selection runs: every layout element with an id.
SelectElements == {e \in LayoutElements : e.id # ""}

InitSelect == InitWith(AllLists(SelectElements), {NoErrors})

NextSelect ==
    \/ Setup
    \/ Mount
    \/ AddElement(SelectElements)
    \/ RemoveElement
    \/ UpdateElement(SelectElements)
    \/ DeletePlate
    \/ TouchElements
    \/ Tap

SpecSelect == InitSelect /\ [][NextSelect]_vars

\* ----------------------------------------------- the events of the canvas

\* The rendered nodes, and the plates among them.
RenderedNodes(g) == {id \in DOMAIN g : g[id].group = "nodes"}
RenderedPlates(g) == {id \in DOMAIN g : g[id].nodeType = "plate"}

\* The compound-drop notifications of the engine: a moved node, the plate it
\* is now in and the plate it was in (null: none).
CompoundDropData(g) ==
    {[node |-> n, newParent |-> np, oldParent |-> op] :
        n \in RenderedNodes(g),
        np \in (RenderedPlates(g) \cup {Null}),
        op \in (RenderedPlates(g) \cup {Null})}

\* A compound drop: the engine has the node under its new parent, or has
\* left the graph to the next pass, and notifies the listener.
CompoundDrop ==
    \E data \in CompoundDropData(cy), moved \in BOOLEAN :
        /\ phase = "mounted"
        /\ data.node \notin {data.newParent, data.oldParent}
        /\ handler' = "compound-drop"
        /\ cy' = IF moved
                 THEN CyMove(cy, data.node,
                             IF data.newParent = Null THEN Undefined
                             ELSE data.newParent)
                 ELSE cy
        /\ touched' = (touched \/ cy' # cy)
        /\ received' = data
        /\ emitted' = CompoundDropEvents(cy', data)
        /\ UNCHANGED <<phase, propVars, ops, renders, raisedAt, repeat,
                       unmoved, zoomVars, cyPan, gridVars>>

\* A cxt-remove event of the container: its detail names an element, or
\* nothing.
CxtRemove ==
    \E elementId \in DOMAIN cy \cup {""} :
        /\ phase = "mounted"
        /\ handler' = "cxt-remove"
        /\ emitted' = CxtRemoveEvents(elementId)
        /\ received' = NoInput
        /\ UNCHANGED <<phase, propVars, graphVars, zoomVars, cyPan, gridVars>>

\* The drops of the event runs: a plate and a table, off the origin.
EventDropInputs ==
    {[transfer |-> TRUE, kind |-> k, client |-> Pt(1, 1), origin |-> Pt(0, 0)] :
        k \in {"plate", "table"}}

InitEvents == InitWith(AllLists(RaiseElements), {NoErrors})

NextEvents ==
    \/ Setup
    \/ Mount
    \/ AddElement(RaiseElements)
    \/ RemoveElement
    \/ UpdateElement(RaiseElements)
    \/ TouchElements
    \/ Tap
    \/ CompoundDrop
    \/ CxtRemove
    \/ DropOf(EventDropInputs)

SpecEvents == InitEvents /\ [][NextEvents]_vars

\* ----------------------------------------------------------- the grid props

\* The parent changes props.isGridEnabled.
SetGridEnabled ==
    \E b \in BOOLEAN :
        /\ phase = "mounted"
        /\ b # isGridEnabled
        /\ handler' = "watchGridEnabled"
        /\ isGridEnabled' = b
        /\ SetCtl(OnGridEnabled(Ctl, b))
        /\ Silent
        /\ UNCHANGED <<phase, propVars, graphVars, zoomVars, cyPan, gridSize>>

\* The parent changes props.gridSize.
SetGridSize ==
    \E n \in GridSizes :
        /\ phase = "mounted"
        /\ n # gridSize
        /\ handler' = "watchGridSize"
        /\ gridSize' = n
        /\ SetCtl(OnGridSize(Ctl, n, isGridEnabled))
        /\ Silent
        /\ UNCHANGED <<phase, propVars, graphVars, zoomVars, cyPan,
                       isGridEnabled>>

\* The parent changes both at once: the two watchers run in the order of
\* their registration, and both see the new props.
SetGridBoth ==
    \E b \in BOOLEAN, n \in GridSizes :
        /\ phase = "mounted"
        /\ b # isGridEnabled /\ n # gridSize
        /\ handler' = "watchGridBoth"
        /\ isGridEnabled' = b
        /\ gridSize' = n
        /\ SetCtl(OnGridSize(OnGridEnabled(Ctl, b), n, b))
        /\ Silent
        /\ UNCHANGED <<phase, propVars, graphVars, zoomVars, cyPan>>

\* The grid runs: every value of the grid props, over a list that is passed
\* again.
InitGrid ==
    InitAll(AllLists(RaiseElements), {NoErrors}, BOOLEAN \X GridSizes)

NextGrid ==
    \/ Setup
    \/ Mount
    \/ TouchElements
    \/ SetGridEnabled
    \/ SetGridSize
    \/ SetGridBoth

SpecGrid == InitGrid /\ [][NextGrid]_vars

\* ------------------------------------------------- a pass that is cut short

\* The most engine calls one pass makes.
CallsOf(g, L, E) == syncGraphWithProps(g, L, E, 0).n

\* A pass one of whose engine calls raises.
PassRaises(U) ==
    \E L \in Added(U) \cup Removed \cup Updated(U) \cup {elements} :
        \E failAt \in 1..CallsOf(cy, L, validationErrors) :
            /\ Len(L) <= MaxLen
            /\ SetProps(L, validationErrors, failAt)

InitRaise == InitWith(AllLists(RaiseElements), {NoErrors})

NextRaise ==
    \/ Setup
    \/ Mount
    \/ AddElement(RaiseElements)
    \/ RemoveElement
    \/ UpdateElement(RaiseElements)
    \/ TouchElements
    \/ PassRaises(RaiseElements)

SpecRaise == InitRaise /\ [][NextRaise]_vars

\* ----------------------------------------------------------------- claims

PassRan == handler \in {"onMounted", "watchProps"}

Moves == {"add", "remove", "position", "move"}

\* C1: after a pass over a list of the data model the ids of the rendering
\* graph are exactly the ids of the list.
C1_MirrorInvariant ==
    (PassRan /\ WellFormed(elements)) => DOMAIN cy = IdsOf(elements)

\* C2: a pass over the list and map of the pass before it, with no
\* interaction between the two, adds, removes, repositions and reparents
\* nothing.
C2_Idempotence ==
    (PassRan /\ repeat /\ WellFormed(elements)) =>
        \A o \in ops : o.op \notin Moves

\* C3: a pass repositions and reparents no node that its list and the list
\* of the pass before it, both of the data model, place at the same position
\* under the same parent, when no interaction came between the two passes.
C3_PositionStability ==
    PassRan =>
        \A o \in ops : o.id \in unmoved => o.op \notin {"position", "move"}

\* C4: after a pass every rendered edge is stochastic iff the list holds a
\* node with the id of the edge's declared target whose nodeType is
\* stochastic or observed, and deterministic otherwise.
C4_EdgeTypeDerivation ==
    PassRan =>
        \A id \in DOMAIN cy :
            cy[id].group = "edges" =>
                \E i \in DOMAIN elements :
                    /\ elements[i].id = id
                    /\ elements[i].type = "edge"
                    /\ cy[id].relationshipType =
                          IF \E j \in DOMAIN elements :
                                /\ elements[j].type = "node"
                                /\ elements[j].id = elements[i].target
                                /\ elements[j].nodeType
                                      \in {"stochastic", "observed"}
                          THEN "stochastic"
                          ELSE "deterministic"

\* An edge that was in the graph before the pass, whose relationshipType the
\* pass changed to deterministic.
C4_Witness ==
    /\ PassRan
    /\ \E o \in ops :
          /\ o.op = "data" /\ o.changed
          /\ o.id \in DOMAIN cy
          /\ cy[o.id].group = "edges"
          /\ cy[o.id].relationshipType = "deterministic"

\* C5: every graph the renderer is notified of in a pass is the graph the
\* whole pass leaves: no state between the two is shown.
C5_AtomicBatch ==
    PassRan => \A i \in DOMAIN renders : renders[i] = cy

\* A pass of two or more calls that changed the graph, and one notification.
C5_Witness ==
    /\ PassRan
    /\ Cardinality({o \in ops : o.changed}) >= 2
    /\ renders = <<cy>>

\* C6: on a mounted canvas currentZoom is the zoom of the engine (but right
\* after resetView, whose reported 1 is a convention).
C6_ZoomMirrored ==
    (phase = "mounted" /\ handler # "resetView") => currentZoom = cyZoom

\* C7: zoomIn leaves the zoom at min(z * 1.2, 2), never above 2, and zoomOut
\* at max(z / 1.2, 0.1), never below 0.1.
C7_ZoomClamped ==
    /\ handler = "zoomIn" =>
          /\ cyZoom = Min((zoomBefore * 12) \div 10, 2 * ZoomOne)
          /\ cyZoom <= 2 * ZoomOne
    /\ handler = "zoomOut" =>
          /\ cyZoom = Max((zoomBefore * 10) \div 12, ZoomOne \div 10)
          /\ cyZoom >= ZoomOne \div 10

\* zoomIn from a zoom above 2, which it leaves at 2.
C7_Witness ==
    /\ handler = "zoomIn"
    /\ zoomBefore > 2 * ZoomOne
    /\ cyZoom = 2 * ZoomOne

NotEmptyId(e) == e.id # ""

WithoutMalformed(L) == SelectSeq(L, NotEmptyId)

\* C8: an element with an empty id is never rendered, and a pass does to the
\* graph what the pass over the list without such elements does.
C8_MalformedSkipped ==
    [][handler' \in {"onMounted", "watchProps"} =>
          LET r == syncGraphWithProps(cy, WithoutMalformed(elements'),
                                      validationErrors', 0)
          IN /\ "" \notin DOMAIN cy'
             /\ cy' = r.g
             /\ ops' = r.ops]_vars

\* A pass over a list with an element of empty id that added another one.
C8_Witness ==
    /\ PassRan
    /\ "" \in IdsOf(elements)
    /\ \E o \in ops : o.op = "add" /\ o.changed

\* C9 as claimed: after an engine call of a pass raises, no later call of the
\* pass is made, and the graph is not left between the graph before the pass
\* and the reconciled graph.
C9_FailFastNotPartial ==
    [][raisedAt' > 0 =>
          /\ Cardinality(ops') = raisedAt' - 1
          /\ \/ cy' = cy
             \/ cy' = syncGraphWithProps(cy, elements', validationErrors', 0).g
      ]_vars

\* C9 as amended: after engine call k of a pass raises, the calls made are
\* the k - 1 calls of the pass before it, they stay applied, and the batch
\* is left without a notification of the renderer.
C9_FailFast ==
    [][raisedAt' > 0 =>
          LET full == syncGraphWithProps(cy, elements', validationErrors', 0)
          IN /\ Cardinality(ops') = raisedAt' - 1
             /\ ops' \subseteq full.ops
             /\ renders' = << >>
             /\ (\A o \in ops' : ~o.changed) => cy' = cy
      ]_vars

\* A pass cut short after a call that changed the graph, which leaves the
\* graph with other ids than the list.
C9_Witness ==
    /\ raisedAt > 1
    /\ \E o \in ops : o.changed
    /\ DOMAIN cy # IdsOf(elements)

\* C10 as claimed: after a pass a rendered node has hasError iff the map has
\* an entry for its id that is not empty.
C10_HasErrorIffNonEmpty ==
    PassRan =>
        \A id \in DOMAIN cy :
            cy[id].group = "nodes" =>
                (cy[id].hasError <=>
                    (id \in DOMAIN validationErrors
                     /\ validationErrors[id] > 0))

\* C10 as amended: after a pass a rendered node has hasError iff the map has
\* an entry for its id, empty or not.
C10_HasErrorIffKey ==
    PassRan =>
        \A id \in DOMAIN cy :
            cy[id].group = "nodes" =>
                (cy[id].hasError <=> id \in DOMAIN validationErrors)

\* A node that was in the graph before the pass, whose hasError the pass set
\* for an empty entry.
C10_Witness ==
    /\ PassRan
    /\ \E o \in ops :
          /\ o.op = "data" /\ o.changed
          /\ o.id \in DOMAIN cy
          /\ cy[o.id].group = "nodes"
          /\ cy[o.id].hasError
          /\ validationErrors[o.id] = 0

\* C11: a drop emits node-dropped iff its payload is one of stochastic,
\* deterministic, constant, observed and plate, and then exactly one event,
\* with that kind; any other drop emits nothing, under every pan and zoom.
C11_DropFiltering ==
    handler = "drop" =>
        IF received.transfer
           /\ received.kind \in {"stochastic", "deterministic", "constant",
                                 "observed", "plate"}
        THEN /\ Len(emitted) = 1
             /\ emitted[1].name = "node-dropped"
             /\ emitted[1].nodeType = received.kind
        ELSE emitted = << >>

\* A drop of a table away from the container's origin, on a panned and
\* zoomed canvas, which emitted nothing.
C11_Witness ==
    /\ handler = "drop"
    /\ received.transfer /\ received.kind = "table"
    /\ received.client # received.origin
    /\ cyPan # Pt(0, 0) /\ cyZoom # ZoomOne
    /\ emitted = << >>

\* A fraction q is the quotient n / d.
IsQuotient(q, n, d) == q.den > 0 /\ q.num * d = n * q.den

\* C12: the position of node-dropped is (pointer - container origin - pan)
\* / zoom on each axis, and a drop with the pointer at origin + m * zoom +
\* pan, where the engine renders the model point m, yields m.
C12_CoordinateInversion ==
    (handler = "drop" /\ emitted # << >>) =>
        LET pos == emitted[1].position
            c == received.client
            o == received.origin
        IN /\ IsQuotient(pos.x, c.x - o.x - cyPan.x, cyZoom)
           /\ IsQuotient(pos.y, c.y - o.y - cyPan.y, cyZoom)
           /\ \A mx, my \in -3..20 :
                 (c.x = o.x + mx * cyZoom + cyPan.x
                  /\ c.y = o.y + my * cyZoom + cyPan.y)
                    => pos = [x |-> [num |-> mx, den |-> 1],
                              y |-> [num |-> my, den |-> 1]]

\* A drop over the model point (10, 20) of a panned and zoomed canvas whose
\* container is away from the client origin, which yielded (10, 20).
C12_Witness ==
    /\ handler = "drop" /\ emitted # << >>
    /\ cyPan # Pt(0, 0) /\ cyZoom \notin {ZoomOne, 0}
    /\ received.origin # Pt(0, 0)
    /\ received.client = PointerOver(Pt(10, 20), received.origin, cyPan, cyZoom)
    /\ emitted[1].position = [x |-> [num |-> 10, den |-> 1],
                              y |-> [num |-> 20, den |-> 1]]

\* The rendered elements that carry cy-selected.
Selected(g) == {id \in DOMAIN g : g[id].selected}

\* C13: after a tap on a node or an edge that element alone is selected,
\* after a tap on the background none is, and at most one element is
\* selected in every state that taps and passes reach.
C13_SelectionExclusive ==
    /\ Cardinality(Selected(cy)) <= 1
    /\ handler = "tap" =>
          /\ Len(emitted) = 1
          /\ Selected(cy) = DOMAIN cy \cap {emitted[1].target}

\* A tap that selected the edge of a graph of three elements.
C13_Witness ==
    /\ handler = "tap"
    /\ Cardinality(DOMAIN cy) = 3
    /\ \E id \in Selected(cy) : cy[id].group = "edges"

\* C14: a compound-drop notification emits exactly one node-moved event,
\* with the id of the moved node, its rendered position, and the id of the
\* new parent, or no parentId when the node has no container now, whatever
\* the old parent was.
C14_NodeMovedOnCompoundDrop ==
    handler = "compound-drop" =>
        emitted = <<[name |-> "node-moved",
                     nodeId |-> received.node,
                     position |-> cy[received.node].position,
                     parentId |-> IF received.newParent = Null THEN Undefined
                                  ELSE received.newParent]>>

\* A node at (10, 20) dropped out of its plate: the event has no parentId.
C14_Witness ==
    /\ handler = "compound-drop"
    /\ received.oldParent # Null /\ received.newParent = Null
    /\ cy[received.node].parent = Undefined
    /\ cy[received.node].position = Pt(10, 20)
    /\ Len(emitted) = 1 /\ emitted[1].parentId = Undefined

\* C15: on a mounted canvas the controller snaps iff isGridEnabled is true,
\* and its pitch is the latest gridSize: a change of gridSize takes effect
\* without a toggle and enables nothing while the grid is disabled.
C15_GridTracking ==
    phase = "mounted" =>
        /\ snapping <=> isGridEnabled
        /\ pitch = gridSize

\* A change of gridSize to 20 while the grid is disabled: the pitch is 20
\* and the controller does not snap.
C15_Witness ==
    /\ handler = "watchGridSize"
    /\ ~isGridEnabled /\ ~snapping
    /\ gridSize = 20 /\ pitch = 20

\* The element of list L with the given id.
Declared(L, id) == L[CHOOSE i \in DOMAIN L : L[i].id = id]

\* The nodes of graph g that a pass over list L finds in the graph when it
\* reaches them: those the list names and the removals of the pass leave.
FoundNodes(g, L) ==
    (RenderedNodes(g) \cap IdsOf(L))
        \ RemovalClosure(g, DOMAIN g \ IdsOf(L))

\* The calls of one kind that a set of engine calls makes on one element.
CallsOn(calls, kind, id) == {o \in calls : o.op = kind /\ o.id = id}

C18_StateConvergence ==
    (PassRan /\ WellFormed(elements)) =>
        \A id \in RenderedNodes(cy) :
            /\ id \in IdsOf(elements)
            /\ cy[id].position = Declared(elements, id).position
            /\ cy[id].parent = Declared(elements, id).parent

\* C19: a pass over a list of the data model leaves the selected marker of
\* every element that was rendered before the pass and is named by the list
\* as it was, also when the pass removes other elements, such as the plate
\* that holds it.
C19_SelectionPreserved ==
    [][(handler' = "watchProps" /\ WellFormed(elements')) =>
          \A id \in DOMAIN cy \cap IdsOf(elements') :
              id \in DOMAIN cy' => cy'[id].selected = cy[id].selected
      ]_vars

\* The names of the events that a sequence of events holds.
NamesOf(events) == {events[i].name : i \in DOMAIN events}

\* C20: no handler emits plate-emptied: every event emitted is canvas-tap,
\* node-moved, node-dropped or element-remove, and a compound drop, also
\* one that takes the last child out of a plate, emits node-moved alone.
C20_NeverPlateEmptied ==
    /\ NamesOf(emitted) \subseteq
          {"canvas-tap", "node-moved", "node-dropped", "element-remove"}
    /\ handler = "compound-drop" => NamesOf(emitted) = {"node-moved"}

\* A compound drop that took the last child out of a rendered plate.
C20_Witness ==
    /\ handler = "compound-drop"
    /\ received.oldParent \in DOMAIN cy
    /\ received.newParent = Null
    /\ cy[received.node].parent = Undefined
    /\ Children(cy, received.oldParent) = {}
    /\ NamesOf(emitted) = {"node-moved"}

====
